---- MODULE Spec2Model ----
(***************************************************************************)
(* gofp: a Pipeline is a receive-only channel with a one-slot buffer.     *)
(* New runs a generator in its own goroutine and closes the channel when  *)
(* the generator returns; Map and Filter each start one such goroutine    *)
(* reading the upstream Pipeline; TakeAll, Take, First, Drop, DropAll and *)
(* Reduce run in the calling goroutine.                                   *)
(*                                                                         *)
(* Conduit 0 is written by the source (ForEach(vs...)), conduit i by the  *)
(* i-th stage of the chain; the caller reads conduit Last.                *)
(***************************************************************************)
EXTENDS Integers, Sequences, FiniteSets, TLC

\* ------------------------------------------------------------------ bounds
\* longest source sequence
MaxLen == 3
\* longest chain of Map/Filter stages
MaxStages == 2

\* a channel with a second buffer slot
Cap_Two == 1 + 1

\* make(chan interface{}, 1)
Cap == 1

\* the sequences a source may carry: the runs 1, 2, .., k (as Range(1, k+1)
\* yields them) and the runs of k equal values, k up to n
Sources(n) ==
    {[i \in 1..k |-> i] : k \in 0..n} \cup {[i \in 1..k |-> 2] : k \in 0..n}
\* the forms in which a callable can be handed to Map, Filter and Reduce:
\* the bare func over interface{} ("plain"), the named adapter type
\* (MapFunc, FilterFunc, ReduceFunc: "named"), a Func ("Func"), and any other
\* typed function ("typed"), as the type switches distinguish them
Forms == {"plain", "named", "Func", "typed"}
\* largest magnitude of a Range argument
MaxRange == 4
\* the ends handed to Range, and the steps (a step of 0 makes a generator
\* that never ends, and is left out)
RangeInts == (0 - MaxRange) .. MaxRange
RangeSteps == {-2, -1, 1, 2}
\* Range(init, r...): one, two or three arguments
RangeArgs ==
    {<<a>> : a \in RangeInts}
        \cup {<<a, b>> : a \in RangeInts, b \in RangeInts}
        \cup {<<a, b, c>> : a \in RangeInts, b \in RangeInts, c \in RangeSteps}
\* most arguments handed to a flipped Func
MaxArgs == 4
\* the argument lists handed to a flipped Func
ArgVals == {"a", "b", "c"}
ArgLists == UNION {[1..n -> ArgVals] : n \in 0..MaxArgs}
\* longest source sequence of a chain read by one Take and then left
LeakLen == 7
\* the counts handed to Take and Drop
Counts == -1 .. (MaxLen + 1)

VARIABLES vs, stages, idx, pc, hold, ch, cons, fault, app, peer

vars == <<vs, stages, idx, pc, hold, ch, cons, fault, app, peer>>

\* ------------------------------------------------------- the user functions
\* func(i int) int { return i + 1 }, func(i int) int { return i * 2 }
UserMap(fn, v) ==
    IF fn = "inc" THEN v + 1 ELSE v * 2

\* func(i int) bool { return i%2 == 0 }
UserFilter(fn, v) ==
    v % 2 = 0

\* func(i, j int) int { return i + j }, and a combiner that tells its
\* arguments apart
UserReduce(fn, v1, v2) ==
    IF fn = "add" THEN v1 + v2 ELSE v1 - v2

\* ------------------------------------------------------------ the adapters
\* an adapter value: the function it calls, or the nil function value
Adapter(fn) == [fn |-> fn, nil |-> FALSE]

NilAdapter == [fn |-> "nil", nil |-> TRUE]

\* Map's type switch: each of the four cases yields a MapFunc calling f
MapAdapter(fm, fn) ==
    CASE fm = "plain" -> Adapter(fn)
      [] fm = "named" -> Adapter(fn)
      [] fm = "Func"  -> Adapter(fn)
      [] OTHER        -> Adapter(fn)

\* Filter's type switch
FilterAdapter(fm, fn) ==
    CASE fm = "plain" -> Adapter(fn)
      [] fm = "named" -> Adapter(fn)
      [] fm = "Func"  -> Adapter(fn)
      [] OTHER        -> Adapter(fn)

\* Reduce's type switch: the first case converts rf, the still unset
\* ReduceFunc variable, in place of ft
ReduceAdapter(fm, fn) ==
    CASE fm = "plain" -> NilAdapter
      [] fm = "named" -> Adapter(fn)
      [] fm = "Func"  -> Adapter(fn)
      [] OTHER        -> Adapter(fn)

\* mf.Map(i)
MapCall(mf, v) == UserMap(mf.fn, v)

\* ff.Filter(i)
FilterCall(ff, v) == UserFilter(ff.fn, v)

\* rf.Reduce(i, result)
ReduceCall(rf, v1, v2) == UserReduce(rf.fn, v1, v2)

\* ---------------------------------------------------------------- pipelines
MapFns == {"inc", "dbl"}
FilterFns == {"even"}
ReduceFns == {"add", "sub"}

\* pl.Map(f), pl.Filter(f) as the caller writes them
StageCalls ==
    [kind : {"map"}, fn : MapFns] \cup [kind : {"filter"}, fn : FilterFns]

\* the stage Map or Filter builds from a callable handed over in form fm
MakeStage(fm, call) ==
    [kind |-> call.kind,
     ad   |-> IF call.kind = "map" THEN MapAdapter(fm, call.fn)
                                   ELSE FilterAdapter(fm, call.fn)]

SeqsUpTo(S, n) == UNION {[1..k -> S] : k \in 0..n}

Last == Len(stages)
Conduits == 0..Last
Tasks == 0..Last

\* a fresh channel; sent records the values written to it and closers the
\* tasks that closed it
NewChan == [buf |-> <<>>, closed |-> FALSE, sent |-> <<>>, closers |-> <<>>]

\* ch <- v on conduit c: the value joins the buffer
ChanSend(c, v) ==
    [ch EXCEPT ![c].buf = Append(@, v), ![c].sent = Append(@, v)]

\* <-ch on conduit c, its buffer holding a value
ChanRecv(c) == [ch EXCEPT ![c].buf = Tail(@)]

\* close(ch) on conduit c, by task t
ChanClose(c, t) ==
    [ch EXCEPT ![c].closed = TRUE, ![c].closers = Append(@, t)]

\* a send that proceeds while fewer than two values wait
SendReady_Two(c) == ch[c].closed \/ Len(ch[c].buf) < 2

\* a send can proceed: the buffer has room (a send on a closed channel
\* proceeds too, and panics)
SendReady(c) == ch[c].closed \/ Len(ch[c].buf) < Cap

\* a receive yields a value
RecvReady(c) == ch[c].buf # <<>>

\* a range that ends as soon as no value is waiting
RecvEnded_Empty(c) == ch[c].buf = <<>>

\* a receive yields the closed channel's zero value: `range` ends
RecvEnded(c) == ch[c].buf = <<>> /\ ch[c].closed

\* the process is alive: no goroutine has panicked
Alive == fault = "none"

\* the absent result (nil), and a present one
Absent == [ok |-> FALSE, v |-> 0]

Present(v) == [ok |-> TRUE, v |-> v]

NoAdapter == [fn |-> "none", nil |-> FALSE]

\* the caller before its first call
NoCall ==
    [pc |-> "idle", op |-> "none", fn |-> "none", n0 |-> 0, i |-> 0,
     values |-> <<>>,
     ret |-> Absent, seed |-> 0, acc |-> 0, rf |-> NoAdapter, start |-> 0, mark |-> 0]

\* a call of a constructor or of a Func taken by itself: its arguments,
\* whether it has been made, and for a Func the arguments handed on
NoApp == [fn |-> "none", args |-> <<>>, ret |-> <<>>, done |-> FALSE]

Apply(fn, args) == [fn |-> fn, args |-> args, ret |-> <<>>, done |-> FALSE]

\* a second goroutine of the caller's, before it calls anything on the
\* conduit; values are the ones its TakeAll has appended
NoPeer == [pc |-> "none", values |-> <<>>]

\* the values the caller has received from its conduit so far
Received == Len(ch[Last].sent) - Len(ch[Last].buf)

\* ---------------------------------------------------------------- Init
\* ForEach(vs...) followed by a chain of Map and Filter calls, each handed
\* its callable in some form; every goroutine started and none yet run
Init ==
    /\ vs \in Sources(MaxLen)
    /\ \E calls \in SeqsUpTo(StageCalls, MaxStages), fm \in Forms :
          stages = [i \in 1..Len(calls) |-> MakeStage(fm, calls[i])]
    /\ idx = 0
    /\ pc = [t \in 0..Len(stages) |-> IF t = 0 THEN "loop" ELSE "recv"]
    /\ hold = [t \in 0..Len(stages) |-> 0]
    /\ ch = [c \in 0..Len(stages) |-> NewChan]
    /\ cons = NoCall
    /\ fault = "none"
    /\ app = NoApp
    /\ peer = NoPeer

\* ------------------------------------------------------------ the tasks
\* the goroutine New starts: `defer close(out); f(out)`.  A send or a close
\* on a closed channel panics and ends the process.
SendOn(c, v) ==
    IF ch[c].closed
    THEN fault' = "send on closed channel" /\ UNCHANGED ch
    ELSE ch' = ChanSend(c, v) /\ UNCHANGED fault

CloseOn(c, t) ==
    IF ch[c].closed
    THEN /\ fault' = "close of closed channel"
         /\ ch' = [ch EXCEPT ![c].closers = Append(@, t)]
    ELSE ch' = ChanClose(c, t) /\ UNCHANGED fault

\* a task that closes the conduit it reads
Out_Upstream(t) == IF t = 0 THEN 0 ELSE t - 1

\* the conduit task t closes: the one New made for it
Out(t) == t

\* where a task is once its generator has returned and the deferred close ran
Exited == "done"

\* ForEach: for _, v := range vs { ch <- v }
SourceSend ==
    /\ Alive
    /\ pc[0] = "loop"
    /\ idx < Len(vs)
    /\ SendReady(0)
    /\ SendOn(0, vs[idx + 1])
    /\ idx' = idx + 1
    /\ UNCHANGED <<app, peer, vs, stages, pc, hold, cons>>

\* ForEach's generator returns: New's deferred close(out)
SourceClose ==
    /\ Alive
    /\ pc[0] = "loop"
    /\ idx = Len(vs)
    /\ CloseOn(Out(0), 0)
    /\ pc' = [pc EXCEPT ![0] = Exited]
    /\ UNCHANGED <<app, peer, vs, stages, idx, hold, cons>>

\* the callables reflection cannot call as Map and Filter call them: a value
\* that is no function, a function of another arity, a predicate whose result
\* is no bool
IllFns == {"notfunc", "arity", "nonbool"}

\* invoking the adapter panics: fv.Call on a non-function or with the wrong
\* number of arguments, .Bool() on a result that is no bool
CallPanics(ad) == ad.fn \in IllFns

\* a Map stage that sends the value as it came
MapOut_Raw(st, v) == v

\* the value a Map stage sends for the value it received: out <- mf.Map(i)
MapOut(st, v) == MapCall(st.ad, v)

\* a Filter stage that forwards every value
FilterKeeps_All(st, v) == TRUE

\* whether a Filter stage sends the value it received: if ff.Filter(i)
FilterKeeps(st, v) == FilterCall(st.ad, v)

\* Map, Filter: `for i := range pl` receives a value; Map goes on to send
\* mf.Map(i), Filter to send i if ff.Filter(i) and to the next receive if not
StageRecv(t) ==
    /\ Alive
    /\ t \in 1..Last
    /\ pc[t] = "recv"
    /\ RecvReady(t - 1)
    /\ LET v == Head(ch[t - 1].buf)
           st == stages[t]
       IN  /\ ch' = ChanRecv(t - 1)
           /\ IF CallPanics(st.ad)
              THEN /\ fault' = "reflect: call of ill-shaped callable"
                   /\ UNCHANGED <<hold, pc>>
              ELSE IF st.kind = "map"
              THEN /\ hold' = [hold EXCEPT ![t] = MapOut(st, v)]
                   /\ pc' = [pc EXCEPT ![t] = "send"]
                   /\ UNCHANGED fault
              ELSE IF FilterKeeps(st, v)
              THEN /\ hold' = [hold EXCEPT ![t] = v]
                   /\ pc' = [pc EXCEPT ![t] = "send"]
                   /\ UNCHANGED fault
              ELSE UNCHANGED <<hold, pc, fault>>
    /\ UNCHANGED <<app, peer, vs, stages, idx, cons>>

\* Map, Filter: `out <- ...`
StageSend(t) ==
    /\ Alive
    /\ t \in 1..Last
    /\ pc[t] = "send"
    /\ SendReady(t)
    /\ SendOn(t, hold[t])
    /\ hold' = [hold EXCEPT ![t] = 0]
    /\ pc' = [pc EXCEPT ![t] = "recv"]
    /\ UNCHANGED <<app, peer, vs, stages, idx, cons>>

\* Map, Filter: the range over the closed and drained upstream ends, the
\* generator returns, New's deferred close(out) runs
StageClose(t) ==
    /\ Alive
    /\ t \in 1..Last
    /\ pc[t] = "recv"
    /\ RecvEnded(t - 1)
    /\ CloseOn(Out(t), t)
    /\ pc' = [pc EXCEPT ![t] = Exited]
    /\ UNCHANGED <<app, peer, vs, stages, idx, hold, cons>>

Stage(t) == StageRecv(t) \/ StageSend(t) \/ StageClose(t)

Source == SourceSend \/ SourceClose

\* ------------------------------------------------------------ the caller
\* the seeds handed to Reduce
Seeds == {0, 1}

\* the caller enters a terminal operation on its conduit.  start notes how
\* many values it had received before, for the properties below.
Enter(op, n, fn, seed, rf) ==
    /\ Alive
    /\ cons.pc = "idle"
    /\ cons' = [pc |-> "call", op |-> op, fn |-> fn, n0 |-> n,
                i |-> IF op = "Take" THEN n ELSE 0,
                values |-> <<>>, ret |-> Absent, seed |-> seed, acc |-> seed,
                rf |-> rf,
                start |-> Received, mark |-> 0]
    /\ UNCHANGED <<app, peer, vs, stages, idx, pc, hold, ch, fault>>

\* Reduce's type switch runs as Reduce is entered
Call ==
    \/ Enter("TakeAll", 0, "none", 0, NoAdapter)
    \/ Enter("First", 0, "none", 0, NoAdapter)
    \/ Enter("DropAll", 0, "none", 0, NoAdapter)
    \/ \E n \in Counts : Enter("Take", n, "none", 0, NoAdapter)
    \/ \E n \in Counts : Enter("Drop", n, "none", 0, NoAdapter)
    \/ \E fn \in ReduceFns, seed \in Seeds, fm \in Forms :
          Enter("Reduce", 0, fn, seed, ReduceAdapter(fm, fn))

In(op) == Alive /\ cons.pc = "call" /\ cons.op = op

\* the operation returns; what it returns stays in values and ret
Returned(c) == [c EXCEPT !.pc = "idle", !.i = 0, !.acc = 0, !.rf = NoAdapter]

Frame == UNCHANGED <<app, peer, vs, stages, idx, pc, hold, fault>>

\* TakeAll: for v := range pl { values = append(values, v) }
TakeAllRecv ==
    /\ In("TakeAll")
    /\ RecvReady(Last)
    /\ cons' = [cons EXCEPT !.values = Append(@, Head(ch[Last].buf))]
    /\ ch' = ChanRecv(Last)
    /\ Frame

\* TakeAll: return values
TakeAllEnd ==
    /\ In("TakeAll")
    /\ RecvEnded(Last)
    /\ cons' = Returned(cons)
    /\ UNCHANGED ch
    /\ Frame

\* a Take that returns early for negative counts only
TakeEarly_Neg(n) == n < 0

\* Take: if n <= 0 { return nil }
TakeEarly(n) == n <= 0

\* a Take that leaves its loop one element late
TakeBreak_Late(n) == n < 0

\* Take: n--; if n <= 0 { break }, n being the count after the decrement
TakeBreak(n) == n <= 0

\* Take has not entered its loop yet
TakeAtEntry == cons.values = <<>> /\ cons.i = cons.n0

TakeNil ==
    /\ In("Take")
    /\ TakeAtEntry
    /\ TakeEarly(cons.n0)
    /\ cons' = Returned(cons)
    /\ UNCHANGED ch
    /\ Frame

TakeRecv ==
    /\ In("Take")
    /\ ~(TakeAtEntry /\ TakeEarly(cons.n0))
    /\ RecvReady(Last)
    /\ LET got == [cons EXCEPT !.values = Append(@, Head(ch[Last].buf)),
                               !.i = @ - 1]
       IN  cons' = IF TakeBreak(got.i) THEN Returned(got) ELSE got
    /\ ch' = ChanRecv(Last)
    /\ Frame

TakeEnd ==
    /\ In("Take")
    /\ ~(TakeAtEntry /\ TakeEarly(cons.n0))
    /\ RecvEnded(Last)
    /\ cons' = Returned(cons)
    /\ UNCHANGED ch
    /\ Frame

\* a First that notes the value and goes on ranging
FirstBody_Loop(c, v) == [c EXCEPT !.ret = Present(v)]

\* First: the body of `for v := range pl`: return v
FirstBody(c, v) == Returned([c EXCEPT !.ret = Present(v)])

\* First: for v := range pl { return v }
FirstRecv ==
    /\ In("First")
    /\ RecvReady(Last)
    /\ cons' = FirstBody(cons, Head(ch[Last].buf))
    /\ ch' = ChanRecv(Last)
    /\ Frame

\* First: return nil
FirstEnd ==
    /\ In("First")
    /\ RecvEnded(Last)
    /\ cons' = Returned([cons EXCEPT !.ret = Absent])
    /\ UNCHANGED ch
    /\ Frame

\* a Drop that discards one element too many
DropMore_Incl(i, n) == i <= n

\* Drop: for i := 0; i < n; i++
DropMore(i, n) == i < n

\* Drop: <-pl yields a value
DropRecv ==
    /\ In("Drop")
    /\ DropMore(cons.i, cons.n0)
    /\ RecvReady(Last)
    /\ cons' = [cons EXCEPT !.i = @ + 1]
    /\ ch' = ChanRecv(Last)
    /\ Frame

\* a receive that waits on a closed conduit as on an open one
RecvZero_Blocks(c) == FALSE

\* <-pl yields the zero value at once: the conduit is closed and drained
RecvZero(c) == RecvEnded(c)

\* Drop: <-pl on the closed and drained conduit yields at once
DropPast ==
    /\ In("Drop")
    /\ DropMore(cons.i, cons.n0)
    /\ RecvZero(Last)
    /\ cons' = [cons EXCEPT !.i = @ + 1]
    /\ UNCHANGED ch
    /\ Frame

\* Drop: return pl
DropReturn ==
    /\ In("Drop")
    /\ ~DropMore(cons.i, cons.n0)
    /\ cons' = Returned(cons)
    /\ UNCHANGED ch
    /\ Frame

\* DropAll: for _ = range pl {}
DropAllRecv ==
    /\ In("DropAll")
    /\ RecvReady(Last)
    /\ ch' = ChanRecv(Last)
    /\ UNCHANGED cons
    /\ Frame

DropAllEnd ==
    /\ In("DropAll")
    /\ RecvEnded(Last)
    /\ cons' = Returned(cons)
    /\ UNCHANGED ch
    /\ Frame

\* Reduce: for i := range pl { result = rf.Reduce(i, result) }; calling the
\* nil ReduceFunc panics in the calling goroutine
ReduceRecv ==
    /\ In("Reduce")
    /\ RecvReady(Last)
    /\ ch' = ChanRecv(Last)
    /\ IF cons.rf.nil
       THEN /\ fault' = "call of nil func"
            /\ UNCHANGED cons
       ELSE /\ cons' = [cons EXCEPT
                          !.acc = ReduceCall(cons.rf, Head(ch[Last].buf), @)]
            /\ UNCHANGED fault
    /\ UNCHANGED <<app, peer, vs, stages, idx, pc, hold>>

\* Reduce: return result
ReduceEnd ==
    /\ In("Reduce")
    /\ RecvEnded(Last)
    /\ cons' = Returned([cons EXCEPT !.ret = Present(cons.acc)])
    /\ UNCHANGED ch
    /\ Frame

\* the caller gives up its conduit and never reads it again; mark notes how
\* many values had been written to it by then
Abandon ==
    /\ Alive
    /\ cons.pc = "idle"
    /\ cons' = [cons EXCEPT !.pc = "stopped", !.mark = Len(ch[Last].sent)]
    /\ UNCHANGED <<app, peer, vs, stages, idx, pc, hold, ch, fault>>

\* a step of the terminal operation in progress
Step ==
    \/ TakeAllRecv \/ TakeAllEnd
    \/ TakeNil \/ TakeRecv \/ TakeEnd
    \/ FirstRecv \/ FirstEnd
    \/ DropRecv \/ DropPast \/ DropReturn
    \/ DropAllRecv \/ DropAllEnd
    \/ ReduceRecv \/ ReduceEnd

Next ==
    \/ Source
    \/ \E t \in 1..MaxStages : Stage(t)
    \/ Call
    \/ Step
    \/ Abandon

Spec == Init /\ [][Next]_vars

\* every goroutine that can run does run in the end; the caller is free to
\* make no further call
Fairness ==
    /\ WF_vars(Source)
    /\ \A t \in 1..MaxStages : WF_vars(Stage(t))
    /\ WF_vars(Step)

FairSpec == Init /\ [][Next]_vars /\ Fairness

\* ---------------------------------------------------------------- Range
\* an abs that leaves its argument as it is
abs_Id(x) == x

\* func abs(x int) int
abs(x) == IF x < 0 THEN 0 - x ELSE x

\* Go's integer division a / b: the quotient truncated toward zero
Quot(a, b) ==
    IF (a < 0) = (b < 0) THEN abs(a) \div abs(b) ELSE 0 - (abs(a) \div abs(b))

\* RangeStep's generator: for i := 0; abs(i) < abs(t); i += s { out <- start + i }
RECURSIVE RangeLoop(_, _, _, _)
RangeLoop(start, t, s, i) ==
    IF abs(i) < abs(t)
    THEN <<start + i>> \o RangeLoop(start, t, s, i + s)
    ELSE <<>>

\* RangeStep(start, end, steps...): the values its pipeline carries, or the
\* panic of t / abs(t) for t = 0, raised before New is called
RangeStep(start, end, steps) ==
    LET step == IF Len(steps) > 0 THEN steps[1] ELSE 1
        t    == end - start
    IN  IF abs(t) = 0
        THEN [ok |-> FALSE, vs |-> <<>>]
        ELSE [ok |-> TRUE,
              vs |-> RangeLoop(start, t, step * Quot(t, abs(t)), 0)]

\* Range(init, r...)
Range(args) ==
    LET init == args[1]
        r    == Tail(args)
    IN  CASE Len(r) = 0 -> RangeStep(0, init, <<>>)
          [] Len(r) = 1 -> RangeStep(init, r[1], <<>>)
          [] OTHER      -> RangeStep(init, r[1], <<r[2]>>)

\* a caller about to call Range: no pipeline yet
RangeInit ==
    /\ app \in {Apply("Range", a) : a \in RangeArgs}
    /\ peer = NoPeer
    /\ vs = <<>>
    /\ stages = <<>>
    /\ idx = 0
    /\ pc = [t \in {0} |-> "new"]
    /\ hold = [t \in {0} |-> 0]
    /\ ch = [c \in {0} |-> NewChan]
    /\ cons = NoCall
    /\ fault = "none"

\* the call of Range: it panics in the caller, or New starts the generator
RangeCall ==
    /\ Alive
    /\ app.fn = "Range"
    /\ ~app.done
    /\ app' = [app EXCEPT !.done = TRUE]
    /\ LET r == Range(app.args)
       IN  IF r.ok
           THEN /\ vs' = r.vs
                /\ pc' = [pc EXCEPT ![0] = "loop"]
                /\ UNCHANGED fault
           ELSE /\ fault' = "integer divide by zero"
                /\ UNCHANGED <<vs, pc>>
    /\ UNCHANGED <<peer, stages, idx, hold, ch, cons>>

\* Range, then TakeAll and First on what it returned
RangeNext ==
    \/ RangeCall
    \/ Source
    \/ app.done /\ Enter("TakeAll", 0, "none", 0, NoAdapter)
    \/ app.done /\ Enter("First", 0, "none", 0, NoAdapter)
    \/ TakeAllRecv
    \/ TakeAllEnd
    \/ FirstRecv
    \/ FirstEnd

RangeSpec == RangeInit /\ [][RangeNext]_vars

\* ----------------------------------------------------------------- Flip
\* f.Flip() called with args: the arguments it hands on to f, by
\* f.Call(append(args[1:], args[0])...); args[1:] of no arguments panics
Flip(args) ==
    IF Len(args) = 0
    THEN [ok |-> FALSE, args |-> <<>>]
    ELSE [ok |-> TRUE, args |-> Append(Tail(args), Head(args))]

\* a caller about to call f.Flip() with some arguments, no pipeline around
FlipInit ==
    /\ app \in {Apply("Flip", a) : a \in ArgLists}
    /\ peer = NoPeer
    /\ vs = <<>>
    /\ stages = <<>>
    /\ idx = 0
    /\ pc = [t \in {0} |-> "new"]
    /\ hold = [t \in {0} |-> 0]
    /\ ch = [c \in {0} |-> NewChan]
    /\ cons = NoCall
    /\ fault = "none"

\* the call of the flipped Func: ret is what f is called with
FlipCall ==
    /\ Alive
    /\ app.fn = "Flip"
    /\ ~app.done
    /\ LET r == Flip(app.args)
       IN  /\ app' = [app EXCEPT !.done = TRUE, !.ret = r.args]
           /\ fault' = IF r.ok THEN fault ELSE "slice bounds out of range"
    /\ UNCHANGED <<peer, vs, stages, idx, pc, hold, ch, cons>>

FlipNext == FlipCall

FlipSpec == FlipInit /\ [][FlipNext]_vars

\* ------------------------------------------- a generator that aborts
\* New takes any generator.  One that writes vs and may abort on the way,
\* by a panic or by runtime.Goexit, stands for those that end abnormally.
AbortKinds == {"panic", "Goexit"}

\* where the generator's goroutine is after runtime.Goexit
Aborted == "aborted"

\* where it is while its panic unwinds: deferred calls run, nothing recovers
Panicking == "panicking"

\* a deferred call that runs on a normal return only
RunsDeferred_OnReturn(kind) == FALSE

\* `defer close(out)` runs however the generator ends
RunsDeferred(kind) == kind \in AbortKinds

\* the generator aborts after idx writes: the deferred close(out) runs;
\* Goexit then ends the goroutine, a panic goes on to end the process
SourceAbort ==
    /\ Alive
    /\ pc[0] = "loop"
    /\ \E kind \in AbortKinds :
          /\ IF RunsDeferred(kind) THEN CloseOn(Out(0), 0)
                                   ELSE UNCHANGED <<ch, fault>>
          /\ pc' = [pc EXCEPT ![0] = IF kind = "Goexit" THEN Aborted
                                                        ELSE Panicking]
    /\ UNCHANGED <<app, peer, vs, stages, idx, hold, cons>>

\* the panic reaches the top of the goroutine: the process ends
Crash ==
    /\ Alive
    /\ pc[0] = Panicking
    /\ fault' = "panic in generator"
    /\ UNCHANGED <<app, peer, vs, stages, idx, pc, hold, ch, cons>>

\* the pipeline with such a generator, drained by TakeAll
AbortNext ==
    \/ Source
    \/ SourceAbort
    \/ Crash
    \/ \E t \in 1..MaxStages : Stage(t)
    \/ Enter("TakeAll", 0, "none", 0, NoAdapter)
    \/ TakeAllRecv
    \/ TakeAllEnd

AbortFairness ==
    /\ WF_vars(Source)
    /\ WF_vars(Crash)
    /\ \A t \in 1..MaxStages : WF_vars(Stage(t))
    /\ WF_vars(TakeAllRecv \/ TakeAllEnd)

AbortFairSpec == Init /\ [][AbortNext]_vars /\ AbortFairness

\* --------------------------------------------- ill-shaped callables
\* pl.Map(f), pl.Filter(f) with a callable of the wrong shape
IllCalls ==
    [kind : {"map", "filter"}, fn : {"notfunc", "arity"}]
        \cup [kind : {"filter"}, fn : {"nonbool"}]

\* the forms an ill-shaped callable can come in: the compiler holds the
\* plain and the named forms to their shape
LooseForms == {"Func", "typed"}

\* NewFunc fails on f: it returns its closure and looks at f only when called
NewFuncFails(fn) == FALSE

\* Map, Filter fail as they are called with f in form fm
MakeStageFails(fm, call) == fm \in LooseForms /\ NewFuncFails(call.fn)

\* a chain whose callables may be ill-shaped, built as Init builds it; a
\* failure as the chain is built ends the process
ShapeInit ==
    /\ vs \in Sources(MaxLen)
    /\ \E calls \in SeqsUpTo(StageCalls \cup IllCalls, MaxStages),
          fm \in LooseForms :
          /\ stages = [i \in 1..Len(calls) |-> MakeStage(fm, calls[i])]
          /\ fault = IF \E i \in 1..Len(calls) : MakeStageFails(fm, calls[i])
                     THEN "panic in Map or Filter"
                     ELSE "none"
    /\ idx = 0
    /\ pc = [t \in 0..Len(stages) |-> IF t = 0 THEN "loop" ELSE "recv"]
    /\ hold = [t \in 0..Len(stages) |-> 0]
    /\ ch = [c \in 0..Len(stages) |-> NewChan]
    /\ cons = NoCall
    /\ app = NoApp
    /\ peer = NoPeer

\* such a chain, drained by TakeAll
ShapeNext ==
    \/ Source
    \/ \E t \in 1..MaxStages : Stage(t)
    \/ Enter("TakeAll", 0, "none", 0, NoAdapter)
    \/ TakeAllRecv
    \/ TakeAllEnd

ShapeSpec == ShapeInit /\ [][ShapeNext]_vars

\* ------------------------------------- one Take, then the conduit is left
\* ForEach(1, .., k) followed by a chain of Map calls
LeakInit ==
    /\ vs \in {[i \in 1..k |-> i] : k \in 0..LeakLen}
    /\ \E calls \in SeqsUpTo([kind : {"map"}, fn : MapFns], MaxStages),
          fm \in Forms :
          stages = [i \in 1..Len(calls) |-> MakeStage(fm, calls[i])]
    /\ idx = 0
    /\ pc = [t \in 0..Len(stages) |-> IF t = 0 THEN "loop" ELSE "recv"]
    /\ hold = [t \in 0..Len(stages) |-> 0]
    /\ ch = [c \in 0..Len(stages) |-> NewChan]
    /\ cons = NoCall
    /\ fault = "none"
    /\ app = NoApp
    /\ peer = NoPeer

\* the caller calls Take(n) once, n > 0, and then leaves the conduit
LeakNext ==
    \/ Source
    \/ \E t \in 1..MaxStages : Stage(t)
    \/ \E n \in 1..LeakLen :
          cons.op = "none" /\ Enter("Take", n, "none", 0, NoAdapter)
    \/ TakeRecv
    \/ TakeEnd
    \/ cons.op = "Take" /\ Abandon

LeakFairness ==
    /\ WF_vars(Source)
    /\ \A t \in 1..MaxStages : WF_vars(Stage(t))
    /\ WF_vars(TakeRecv \/ TakeEnd)

LeakFairSpec == LeakInit /\ [][LeakNext]_vars /\ LeakFairness

\* ------------------------------------------- two callers on one conduit
\* a TakeAll that forgets the value it received
PeerTake_Drop(p, v) == p

\* TakeAll in the second goroutine: values = append(values, v)
PeerTake(p, v) == [p EXCEPT !.values = Append(@, v)]

\* the second goroutine calls TakeAll on the conduit the caller holds
PeerEnter ==
    /\ Alive
    /\ peer.pc = "none"
    /\ peer' = [peer EXCEPT !.pc = "call"]
    /\ UNCHANGED <<app, vs, stages, idx, pc, hold, ch, cons, fault>>

\* its `for v := range pl` receives a value
PeerRecv ==
    /\ Alive
    /\ peer.pc = "call"
    /\ RecvReady(Last)
    /\ peer' = PeerTake(peer, Head(ch[Last].buf))
    /\ ch' = ChanRecv(Last)
    /\ UNCHANGED <<app, vs, stages, idx, pc, hold, cons, fault>>

\* its range ends on the closed and drained conduit: return values
PeerEnd ==
    /\ Alive
    /\ peer.pc = "call"
    /\ RecvEnded(Last)
    /\ peer' = [peer EXCEPT !.pc = "idle"]
    /\ UNCHANGED <<app, vs, stages, idx, pc, hold, ch, cons, fault>>

\* the caller and the second goroutine each call TakeAll once, at any time
DuoNext ==
    \/ Source
    \/ \E t \in 1..MaxStages : Stage(t)
    \/ cons.op = "none" /\ Enter("TakeAll", 0, "none", 0, NoAdapter)
    \/ TakeAllRecv
    \/ TakeAllEnd
    \/ PeerEnter
    \/ PeerRecv
    \/ PeerEnd

DuoFairness ==
    /\ WF_vars(Source)
    /\ \A t \in 1..MaxStages : WF_vars(Stage(t))
    /\ WF_vars(TakeAllRecv \/ TakeAllEnd)
    /\ WF_vars(PeerRecv \/ PeerEnd)

DuoFairSpec == Init /\ [][DuoNext]_vars /\ DuoFairness

\* ------------------------------------------------------------ properties
\* what each conduit is to carry: the source sequence, put through the
\* stages up to it
StageWant(st, in) ==
    IF st.kind = "map"
    THEN [k \in 1..Len(in) |-> UserMap(st.ad.fn, in[k])]
    ELSE SelectSeq(in, LAMBDA v : UserFilter(st.ad.fn, v))

RECURSIVE Want(_)
Want(c) == IF c = 0 THEN vs ELSE StageWant(stages[c], Want(c - 1))

\* x put through the Map stages t..Last in chaining order
RECURSIVE Through(_, _)
Through(t, x) ==
    IF t > Last THEN x ELSE Through(t + 1, UserMap(stages[t].ad.fn, x))

\* the values stage t has received from its upstream conduit
Taken(c) == SubSeq(ch[c].sent, 1, Len(ch[c].sent) - Len(ch[c].buf))

\* the value stage t is about to send, if any
Pending(t) == IF pc[t] = "send" THEN <<hold[t]>> ELSE <<>>

\* the caller's last call was op and has returned
Done(op) == cons.pc \in {"idle", "stopped"} /\ cons.op = op

AllMaps == \A t \in 1..Last : stages[t].kind = "map"

Min(a, b) == IF a < b THEN a ELSE b

\* C1: TakeAll on a chain of Map stages returns the source sequence with the
\* transforms applied to each element in chaining order, nothing lost,
\* duplicated or reordered, whatever the interleaving
C1_MapChain ==
    (Done("TakeAll") /\ cons.start = 0 /\ AllMaps) =>
        cons.values = [k \in 1..Len(vs) |-> Through(1, vs[k])]

\* C1 witness: ForEach(1, 2, 3).Map(+1).Map(*2).TakeAll() has returned
C1_Witness ==
    /\ Done("TakeAll")
    /\ cons.start = 0
    /\ vs = <<1, 2, 3>>
    /\ Last = 2
    /\ stages[1] = [kind |-> "map", ad |-> Adapter("inc")]
    /\ stages[2] = [kind |-> "map", ad |-> Adapter("dbl")]
    /\ cons.values = <<4, 6, 8>>

\* C2: what a Filter stage has written, with the value it is about to write,
\* is exactly the values it received that satisfy the predicate, in order;
\* once it has ended that is the whole upstream sequence, and a TakeAll of
\* its conduit returns just that
C2_Filter ==
    \A t \in 1..Last :
        stages[t].kind = "filter" =>
            LET p(v) == UserFilter(stages[t].ad.fn, v)
            IN  /\ ch[t].sent \o Pending(t) = SelectSeq(Taken(t - 1), p)
                /\ pc[t] = Exited =>
                       ch[t].sent = SelectSeq(ch[t - 1].sent, p)
                /\ (t = Last /\ Done("TakeAll") /\ cons.start = 0) =>
                       cons.values = SelectSeq(ch[t - 1].sent, p)

\* C2 witness: ForEach(1, 2, 3).Filter(even).TakeAll() has returned <<2>>
C2_Witness ==
    /\ Last = 1
    /\ stages[1].kind = "filter"
    /\ ch[0].sent = <<1, 2, 3>>
    /\ Done("TakeAll")
    /\ cons.start = 0
    /\ cons.values = <<2>>

\* the left fold of s from acc, the combiner given (new value, accumulator)
RECURSIVE FoldL(_, _, _)
FoldL(fn, acc, s) ==
    IF s = <<>> THEN acc
    ELSE FoldL(fn, UserReduce(fn, Head(s), acc), Tail(s))

\* what is left of the caller's conduit from position from + 1 on
Rest(from) == SubSeq(Want(Last), from + 1, Len(Want(Last)))

\* C3: Reduce(combiner, seed) folds the values in arrival order, calling the
\* combiner with (new value, accumulator so far), and returns the final
\* accumulator (the seed for an empty conduit) once the conduit is closed
C3_Reduce ==
    cons.op = "Reduce" =>
        /\ fault = "none"
        /\ cons.pc = "call" =>
               cons.acc = FoldL(cons.fn, cons.seed,
                                SubSeq(ch[Last].sent, cons.start + 1, Received))
        /\ Done("Reduce") =>
               /\ cons.ret = Present(FoldL(cons.fn, cons.seed, Rest(cons.start)))
               /\ RecvEnded(Last)

\* C4: Take(n), n > 0, with k elements left returns the next min(n, k) of
\* them in order and receives no more than those; with n > k it leaves the
\* conduit closed and drained
C4_Take ==
    (Done("Take") /\ cons.n0 > 0) =>
        LET k == Len(Want(Last)) - cons.start
            m == Min(cons.n0, k)
        IN  /\ cons.values = SubSeq(Want(Last), cons.start + 1, cons.start + m)
            /\ Received = cons.start + m
            /\ cons.n0 > k => RecvEnded(Last)

\* C4 witness: a Take(n) that began after an earlier call, found fewer than
\* n elements left and returned those
C4_Witness ==
    /\ Done("Take")
    /\ cons.start > 0
    /\ Len(cons.values) > 1
    /\ cons.n0 > Len(cons.values)

\* C5: Take(n), n <= 0, returns an empty result and receives nothing from
\* the conduit, at any point of the call and after it
C5_TakeNonPositive ==
    (cons.op = "Take" /\ cons.n0 <= 0) =>
        /\ cons.values = <<>>
        /\ Received = cons.start

\* C5 witness: Take(0) has returned while a value was waiting in the buffer
C5_Witness ==
    /\ Done("Take")
    /\ cons.n0 = 0
    /\ ch[Last].buf # <<>>

\* the number of values the caller's last call took from the conduit, as its
\* result tells
Consumed ==
    LET k == Len(Want(Last)) - cons.start
    IN  CASE cons.op \in {"TakeAll", "Take"} -> Len(cons.values)
          [] cons.op = "First" -> IF cons.ret.ok THEN 1 ELSE 0
          [] cons.op = "Drop" -> IF cons.n0 < 0 THEN 0 ELSE Min(cons.n0, k)
          [] cons.op \in {"DropAll", "Reduce"} -> k
          [] OTHER -> 0

\* C6: the conduit is once-through.  Each returned call has taken the
\* elements from the one after the last taken before it, in source order:
\* TakeAll all that were left, Take the next ones, First the next one,
\* Drop(n) the next n (as many as were left), and the conduit stands right
\* after them for the next call
C6_OnceThrough ==
    (cons.pc = "idle" /\ cons.op # "none" /\ Alive) =>
        /\ Received = cons.start + Consumed
        /\ cons.op = "TakeAll" => cons.values = Rest(cons.start)
        /\ cons.op = "Take" =>
               cons.values = SubSeq(Want(Last), cons.start + 1, Received)
        /\ (cons.op = "First" /\ cons.ret.ok) =>
               cons.ret.v = Want(Last)[cons.start + 1]
        /\ (cons.op = "Drop" /\ cons.n0 >= 0
                /\ cons.n0 <= Len(Want(Last)) - cons.start) =>
               Received = cons.start + cons.n0

\* C6 witness: on ForEach(1, 2, 3) a TakeAll that began after two elements
\* had been taken has returned the third
C6_Witness ==
    /\ Last = 0
    /\ vs = <<1, 2, 3>>
    /\ cons.pc = "idle"
    /\ cons.op = "TakeAll"
    /\ cons.start = 2
    /\ cons.values = <<3>>

\* what First is to return when entered with `from` values taken before
FirstWant(from) ==
    IF from < Len(Want(Last)) THEN Present(Want(Last)[from + 1]) ELSE Absent

\* a returned First holds the next unread value and has taken just that one,
\* or holds the absent result, the conduit closed and drained
FirstResult ==
    Done("First") =>
        /\ cons.ret = FirstWant(cons.start)
        /\ Received = cons.start + (IF cons.ret.ok THEN 1 ELSE 0)
        /\ ~cons.ret.ok => RecvEnded(Last)

\* C7: First returns the next unread value when one remains and the absent
\* result when the conduit is closed with nothing left, and every First
\* returns in the end (so the second First on a conduit with one element
\* left returns absent instead of blocking)
C7_First == []FirstResult /\ (In("First") ~> cons.pc = "idle")

\* C7 witness: on a source of one element the second First has returned
\* absent
C7_Witness ==
    /\ Len(Want(Last)) = 1
    /\ Done("First")
    /\ cons.start = 1
    /\ cons.ret = Absent

\* the terminal operations that read until the conduit is closed
DrainOps == {"TakeAll", "DropAll", "Reduce"}

\* every task has returned, every conduit is closed and empty
AllEnded ==
    /\ \A t \in Tasks : pc[t] = Exited
    /\ \A c \in Conduits : ch[c].closed /\ ch[c].buf = <<>>

\* C8: on a finite source and any chain of stages a TakeAll, DropAll or
\* Reduce returns in the end, and from then on every task has terminated and
\* every conduit is closed and empty
C8_Drain ==
    /\ (cons.pc = "call" /\ cons.op \in DrainOps) ~> (cons.pc = "idle")
    /\ []((cons.pc \in {"idle", "stopped"} /\ cons.op \in DrainOps) => AllEnded)

\* a conduit is closed by nobody or by its own task, once, and no send or
\* close ever met a closed channel
ClosedOnce ==
    /\ \A c \in Conduits :
          /\ ch[c].closers \in {<<>>, <<c>>}
          /\ ch[c].closed <=> ch[c].closers # <<>>
          /\ ch[c].closed => pc[c] = Exited
    /\ fault \notin {"send on closed channel", "close of closed channel"}

\* nothing is written to a closed conduit
NoWriteAfterClose ==
    \A c \in Conduits : ch[c].closed => ch'[c].sent = ch[c].sent

\* C9: each conduit is closed at most once, by the one task that writes to
\* it, and nothing is written to it after that, whatever the caller does
C9_CloseOnce == []ClosedOnce /\ [][NoWriteAfterClose]_vars

\* C9 witness: the caller has left a two-stage chain after a Take and every
\* conduit has been closed by its task
C9_Witness ==
    /\ Last = 2
    /\ cons.pc = "stopped"
    /\ cons.op = "Take"
    /\ cons.values # <<>>
    /\ \A c \in Conduits : ch[c].closers = <<c>>

\* the values the caller's conduit is still to carry that the caller has not
\* received
Owed == Len(Want(Last)) - Received

\* task t cannot complete a send: the buffer of its conduit is full
BlockedOnWrite(t) ==
    /\ IF t = 0 THEN pc[0] = "loop" /\ idx < Len(vs) ELSE pc[t] = "send"
    /\ Len(ch[t].buf) = Cap
    /\ ~ch[t].closed

\* C10 as stated: a producer that was still writing when the caller, having
\* read some values, stopped reading (it has written since) never closes its
\* conduit
C10_Original ==
    (cons.pc = "stopped" /\ Received > 0 /\ Len(ch[Last].sent) > cons.mark) =>
        (~ch[Last].closed /\ pc[Last] # Exited)

\* C10 amended: once the caller has stopped with two or more values still
\* owed to it, the producer of its conduit never closes it and ends blocked
\* for good on a write into the full buffer, and every task upstream ends
\* either returned or blocked for good on a write
C10_Leak ==
    /\ []((cons.pc = "stopped" /\ Owed >= 2) =>
              (~ch[Last].closed /\ pc[Last] # Exited))
    /\ (cons.pc = "stopped" /\ Owed >= 2) ~>
           [](/\ BlockedOnWrite(Last)
              /\ \A t \in Tasks : pc[t] = Exited \/ BlockedOnWrite(t))

\* C10 witness: the caller has left after a Take, the last stage is blocked
\* on its write with two values owed, and the source has returned
C10_Witness ==
    /\ Last >= 1
    /\ cons.pc = "stopped"
    /\ cons.op = "Take"
    /\ cons.values # <<>>
    /\ Owed >= 2
    /\ BlockedOnWrite(Last)
    /\ pc[0] = Exited

\* stage t has closed its output only with its upstream closed and drained
\* and nothing it received left unsent
ClosesAfterUpstream ==
    \A t \in 1..Last :
        (ch[t].closed \/ pc[t] = Exited) =>
            /\ ch[t - 1].closed
            /\ ch[t - 1].buf = <<>>
            /\ Pending(t) = <<>>

\* stage t is at rest: returned, blocked on a write, or ended with the process
AtRest(t) == pc[t] = Exited \/ BlockedOnWrite(t) \/ ~Alive

Abnormal == pc[0] \in {Aborted, Panicking}

\* what the generator wrote before it ended
Written == SubSeq(vs, 1, idx)

\* the caller drains the generator's own conduit from its start
Draining == Last = 0 /\ cons.op = "TakeAll" /\ cons.start = 0

\* C12 as stated: once the generator has aborted, a caller draining its
\* conduit comes to have received exactly the values written, then the end
C12_Original ==
    (Abnormal /\ Draining /\ In("TakeAll")) ~>
        (Done("TakeAll") /\ cons.values = Written)

\* C12 amended: a generator that aborts after j writes leaves its conduit
\* closed exactly once, carrying those j values; a caller draining it never
\* receives anything else and never blocks for ever: after Goexit it
\* receives the j values and the end, after a panic the process ends
C12_Abort ==
    /\ [](Abnormal => /\ ch[0].closed
                      /\ ch[0].closers = <<0>>
                      /\ ch[0].sent = Written)
    /\ [](Draining => cons.values = SubSeq(Written, 1, Len(cons.values)))
    /\ (pc[0] = Aborted /\ Draining /\ In("TakeAll")) ~>
           (Done("TakeAll") /\ cons.values = Written)
    /\ (pc[0] = Panicking) ~> ~Alive

\* C12 witness: the generator of <<1, 2, 3>> ended by Goexit after two
\* writes and TakeAll has returned <<1, 2>>
C12_Witness ==
    /\ pc[0] = Aborted
    /\ vs = <<1, 2, 3>>
    /\ Draining
    /\ Done("TakeAll")
    /\ cons.values = <<1, 2>>
    /\ RecvEnded(0)

\* one callable of the chain at least is ill-shaped
IllShaped == \E t \in 1..Last : stages[t].ad.fn \in IllFns

\* no task has run and no element has been read
NothingRun ==
    /\ idx = 0
    /\ \A c \in Conduits : ch[c].sent = <<>> /\ ~ch[c].closed
    /\ cons = NoCall

\* C13: a chain built with an ill-shaped callable has failed as it was
\* built, in the calling goroutine, before any task ran or any element was
\* read
C13_AtConstruction ==
    IllShaped => (~Alive /\ NothingRun)

\* the arguments of a Range call as start, end, step
RangeOf(a) ==
    CASE Len(a) = 1 -> [start |-> 0, end |-> a[1], step |-> 1]
      [] Len(a) = 2 -> [start |-> a[1], end |-> a[2], step |-> 1]
      [] OTHER      -> [start |-> a[1], end |-> a[2], step |-> a[3]]

\* the distance |end - start| and the direction sign(end - start)
Dist(r) == IF r.end < r.start THEN r.start - r.end ELSE r.end - r.start

Dir(r) == IF r.end < r.start THEN 0 - 1 ELSE 1

\* start, start + d*s, start + 2*d*s, ..: the values whose offset k*s is
\* smaller than |end - start|
Stepped(r, d, s) ==
    [k \in 1..((Dist(r) + s - 1) \div s) |-> r.start + d * s * (k - 1)]

\* C14: Range with start # end and a step omitted or positive emits start,
\* start + d*s, .. with d the sign of end - start, just the values whose
\* offset is smaller in absolute value than |end - start|, then closes;
\* Range(n) is Range(0, n)
C14_Range ==
    LET r == RangeOf(app.args)
    IN  (app.fn = "Range" /\ app.done /\ r.start # r.end /\ r.step > 0) =>
            /\ Alive
            /\ vs = Stepped(r, Dir(r), r.step)
            /\ (Done("TakeAll") /\ cons.start = 0) =>
                   cons.values = Stepped(r, Dir(r), r.step) /\ RecvEnded(0)

\* C14 witness: Range(0, -4, 2).TakeAll() has returned <<0, -2>>
C14_Witness ==
    /\ app = [Apply("Range", <<0, -4, 2>>) EXCEPT !.done = TRUE]
    /\ Done("TakeAll")
    /\ cons.start = 0
    /\ cons.values = <<0, -2>>

\* C18: RangeStep(start, end, step) with start > end and a negative step
\* emits the descending sequence start, start + step, start + 2*step, ..
\* of the values strictly greater than end
C18_Descending ==
    LET r == RangeOf(app.args)
    IN  (app.fn = "Range" /\ app.done /\ Len(app.args) = 3
             /\ r.start > r.end /\ r.step < 0) =>
            /\ Alive
            /\ vs = Stepped(r, 0 - 1, 0 - r.step)

\* C19: a Range with start = end, Range(0) among them, yields without
\* failure an empty conduit that is closed: TakeAll returns no values and
\* First returns absent
C19_Empty ==
    LET r == RangeOf(app.args)
    IN  (app.fn = "Range" /\ app.done /\ r.start = r.end) =>
            /\ Alive
            /\ vs = <<>>
            /\ Done("TakeAll") => cons.values = <<>>
            /\ Done("First") => cons.ret = Absent

\* C15: a flipped Func called with n >= 2 arguments calls the Func with
\* the first two swapped and the others where they were
C15_Flip ==
    LET a == app.args
    IN  (app.fn = "Flip" /\ app.done /\ Len(a) >= 2) =>
            app.ret = <<a[2], a[1]>> \o SubSeq(a, 3, Len(a))

\* the elements left on the caller's conduit when its call began
LeftAtStart == Len(Want(Last)) - cons.start

\* C16: Drop(n) on a conduit with fewer than n elements left, its producer
\* ending, does not block for ever: it returns, having taken the elements
\* that were left, with the conduit closed and drained, so that a TakeAll
\* that follows returns no values and a First the absent result
C16_DropPast ==
    /\ (In("Drop") /\ cons.n0 > LeftAtStart) ~> Done("Drop")
    /\ []((Done("Drop") /\ cons.n0 > LeftAtStart) =>
              (Received = Len(Want(Last)) /\ RecvEnded(Last)))
    /\ []((Done("TakeAll") /\ LeftAtStart = 0) => cons.values = <<>>)
    /\ []((Done("First") /\ LeftAtStart = 0) => cons.ret = Absent)

\* C16 witness: Drop(4) on a conduit of three elements has returned
C16_Witness ==
    /\ Done("Drop")
    /\ cons.start = 0
    /\ Len(Want(Last)) = 3
    /\ cons.n0 = 4
    /\ Received = 3

\* C17: in whichever of the four forms the combiner is handed to Reduce, on
\* a non-empty input no form fails on the first element: the combiner is
\* called on each element, and the result is the one left fold of the input
C17_Forms ==
    (cons.op = "Reduce" /\ Received > cons.start) =>
        /\ Alive
        /\ cons.pc = "call" =>
               /\ cons.rf = Adapter(cons.fn)
               /\ cons.acc = FoldL(cons.fn, cons.seed,
                                   SubSeq(ch[Last].sent, cons.start + 1, Received))
        /\ Done("Reduce") =>
               cons.ret = Present(FoldL(cons.fn, cons.seed, Rest(cons.start)))

\* the caller has left its conduit after a Take(n) that returned n of the
\* source's k values, 0 < n < k
LeftAfterTake ==
    /\ cons.pc = "stopped"
    /\ cons.op = "Take"
    /\ 0 < cons.n0
    /\ cons.n0 < Len(vs)

\* r = k - n, the values that stay unread
Unread == Len(vs) - cons.n0

\* task t, Last - t stages upstream of the caller's conduit, finds room for
\* all it has still to write: r <= 2j + 1
Fits(t) == Unread <= 2 * (Last - t) + 1

\* C20: on ForEach of k values and m Map stages read by Take(n), 0 < n < k,
\* and then left, the task j stages upstream of the caller's conduit ends
\* returned if and only if k - n <= 2j + 1, and otherwise never returns and
\* ends blocked for good on its write
C20_Threshold ==
    \A t \in 0..MaxStages :
        /\ (t <= Last /\ LeftAfterTake /\ Fits(t)) ~>
               (t <= Last /\ pc[t] = Exited)
        /\ []((t <= Last /\ LeftAfterTake /\ ~Fits(t)) => pc[t] # Exited)
        /\ (t <= Last /\ LeftAfterTake /\ ~Fits(t)) ~>
               [](t <= Last /\ BlockedOnWrite(t))

\* C20 witness: ForEach(1, .., 5).Map(f) left after Take(1): four values
\* stay unread, and the source and the stage are both blocked on a write
C20_Witness ==
    /\ LeftAfterTake
    /\ Last = 1
    /\ Len(vs) = 5
    /\ cons.n0 = 1
    /\ BlockedOnWrite(0)
    /\ BlockedOnWrite(1)

\* s is a and b shuffled together: each member of s is a member of just one
\* of them, and each of them keeps the order of s
RECURSIVE IsMerge(_, _, _)
IsMerge(a, b, s) ==
    IF s = <<>>
    THEN a = <<>> /\ b = <<>>
    ELSE \/ a # <<>> /\ Head(a) = Head(s) /\ IsMerge(Tail(a), b, Tail(s))
         \/ b # <<>> /\ Head(b) = Head(s) /\ IsMerge(a, Tail(b), Tail(s))

\* both TakeAll calls have returned
BothDone == Done("TakeAll") /\ peer.pc = "idle"

\* C21: two TakeAll calls running on one conduit share its values: what the
\* two have received is at each moment what has left the conduit, every
\* value with just one of them and each in production order; both calls
\* return in the end, and the two results then make up all that was produced
C21_Shared ==
    /\ [](IsMerge(cons.values, peer.values, Taken(Last)))
    /\ [](BothDone => (Taken(Last) = Want(Last) /\ RecvEnded(Last)))
    /\ In("TakeAll") ~> Done("TakeAll")
    /\ (peer.pc = "call") ~> (peer.pc = "idle")

\* C21 witness: of ForEach(1, 2, 3) the caller's TakeAll has returned
\* <<1, 3>> and the second goroutine's <<2>>
C21_Witness ==
    /\ BothDone
    /\ Last = 0
    /\ cons.values = <<1, 3>>
    /\ peer.values = <<2>>
====
